---- MODULE Spec2Model ----
(***************************************************************************)
(* Model of the scene-image pipeline of app.py: the chunker                *)
(* (split_script_by_time), the filename deriver (make_filename), the       *)
(* prompt and image synthesizers (generate_prompt, generate_image) and the *)
(* two-phase thread-pool run started by the "start" button.                *)
(*                                                                         *)
(* Python strings are modelled as sequences of one-character strings, so   *)
(* that replace / split / strip / len are computed as the code computes    *)
(* them.                                                                   *)
(***************************************************************************)
EXTENDS Integers, Sequences, FiniteSets, TLC

VARIABLES
    pc,                \* main thread of the run: "idle", "prompt_phase", "image_phase"
    is_processing,     \* st.session_state['is_processing']
    generated_results, \* st.session_state['generated_results']
    status_box,        \* state of the st.status box: "none", "running", "complete"
    message,           \* the st.error / st.warning shown by the start button
    progress_bar,      \* last value given to progress_bar.progress, as <<num, den>>
    files,             \* paths of the files in IMAGE_OUTPUT_DIR
    chunks,            \* local chunks of the run
    max_workers,       \* the sidebar slider value used by the run
    prompt_futures,    \* futures of the prompt phase, in submission order
    prompts,           \* local prompts of the run
    image_futures,     \* futures of the image phase, in submission order
    future_to_meta,    \* metadata of every image future
    results,           \* local results of the run
    fn_pc,       \* position of the pure-function harness: "input", "split", "named"
    fn_script,   \* script argument of split_script_by_time
    fn_limit,    \* chars_per_chunk argument of split_script_by_time
    fn_chunks,   \* value returned by split_script_by_time
    fn_names,    \* make_filename(i, chunk) of every returned chunk
    session_state,  \* the keys of st.session_state the script-writer page and the title field use
    changed_widget  \* key of the widget whose edit awaits its rerun, "" when none does

run_vars == <<pc, is_processing, generated_results, status_box, message, progress_bar,
              files, chunks, max_workers, prompt_futures, prompts, image_futures,
              future_to_meta, results>>

fn_vars == <<fn_pc, fn_script, fn_limit, fn_chunks, fn_names>>

page_vars == <<session_state, changed_widget>>

vars == <<run_vars, fn_vars, page_vars>>

----------------------------------------------------------------------------
(* Bounds of the explored inputs.                                          *)

\* longest script explored exhaustively by the chunker harness
MaxScriptLen == 4

\* largest chars_per_chunk explored exhaustively by the chunker harness
MaxLimit == 4

----------------------------------------------------------------------------
(* Python str primitives on character sequences.                           *)

\* characters str.strip() and str.split() treat as whitespace
Whitespace == {" ", "\n", "\t"}

\* the k-th smallest element of a set of integers
nth(S, k) == CHOOSE x \in S : Cardinality({y \in S : y <= x}) = k

\* the concatenation of a sequence of sequences
RECURSIVE flatten(_)
flatten(seqs) ==
    IF seqs = <<>> THEN <<>>
    ELSE IF Len(seqs) = 1 THEN seqs[1]
    ELSE LET h == Len(seqs) \div 2
         IN  flatten(SubSeq(seqs, 1, h)) \o flatten(SubSeq(seqs, h + 1, Len(seqs)))

\* a sequence given by a rule, as an explicit tuple
tuple(seq) == SubSeq(seq, 1, Len(seq))

RECURSIVE lstrip(_)
lstrip(s) ==
    IF s = <<>> THEN <<>>
    ELSE IF Head(s) \in Whitespace THEN lstrip(Tail(s)) ELSE s

RECURSIVE rstrip(_)
rstrip(s) ==
    IF s = <<>> THEN <<>>
    ELSE IF s[Len(s)] \in Whitespace THEN rstrip(SubSeq(s, 1, Len(s) - 1)) ELSE s

\* mutant of strip: nothing is removed
strip_nothing(s) == s

\* str.strip()
strip(s) == rstrip(lstrip(s))

\* str.replace(old, new) for a one-character old
str_replace(s, old, new) ==
    flatten([i \in 1..Len(s) |-> IF s[i] = old THEN new ELSE <<s[i]>>])

\* str.split(sep) for a one-character sep: the pieces between consecutive
\* separators, empty pieces kept
str_split(s, sep) ==
    LET seps   == { i \in 1..Len(s) : s[i] = sep }
        n      == Cardinality(seps)
        cut(k) == IF k = 0 THEN 0 ELSE IF k = n + 1 THEN Len(s) + 1 ELSE nth(seps, k)
    IN  tuple([k \in 1..(n + 1) |-> SubSeq(s, cut(k - 1) + 1, cut(k) - 1)])

\* str.split() without argument: the maximal runs of non-whitespace
str_words(s) ==
    LET starts == { i \in 1..Len(s) :
                      s[i] \notin Whitespace /\ (i = 1 \/ s[i - 1] \in Whitespace) }
        ends   == { i \in 1..Len(s) :
                      s[i] \notin Whitespace /\ (i = Len(s) \/ s[i + 1] \in Whitespace) }
    IN  tuple([k \in 1..Cardinality(starts) |->
                  SubSeq(s, nth(starts, k), nth(ends, k))])

\* " ".join(words)
str_join(words) ==
    flatten([i \in 1..Len(words) |-> IF i = 1 THEN words[i] ELSE <<" ">> \o words[i]])

\* str.startswith(prefix)
starts_with(s, prefix) ==
    /\ Len(s) >= Len(prefix)
    /\ SubSeq(s, 1, Len(prefix)) = prefix

\* re.sub(r'[\\/:*?"<>|]', "", s)
IllegalChars == {"\\", "/", ":", "*", "?", "\"", "<", ">", "|"}

remove_illegal(s) == SelectSeq(s, LAMBDA c : c \notin IllegalChars)

DigitChars == <<"0", "1", "2", "3", "4", "5", "6", "7", "8", "9">>

\* decimal digits of a natural number
RECURSIVE decimal(_)
decimal(n) ==
    IF n < 10 THEN <<DigitChars[n + 1]>>
    ELSE decimal(n \div 10) \o <<DigitChars[(n % 10) + 1]>>

\* f"{n:03d}": zero-padded to at least three digits
format_03d(n) ==
    LET d == decimal(n)
    IN  IF Len(d) >= 3 THEN d ELSE tuple([i \in 1..(3 - Len(d)) |-> "0"]) \o d

----------------------------------------------------------------------------
(* split_script_by_time                                                    *)

\* script.replace(".", ".|").replace("?", "?|").replace("!", "!|").split("|")
temp_sentences(script) ==
    str_split(
        str_replace(
            str_replace(
                str_replace(script, ".", <<".", "|">>),
                "?", <<"?", "|">>),
            "!", <<"!", "|">>),
        "|")

\* mutant of fits: the length of the running chunk is forgotten
fits_sentence_only(current_chunk, sentence, chars_per_chunk) ==
    Len(sentence) < chars_per_chunk

\* mutant of fits: the test is <= instead of <
fits_inclusive(current_chunk, sentence, chars_per_chunk) ==
    Len(current_chunk) + Len(sentence) <= chars_per_chunk

\* mutant of fits: the length of the sentence is forgotten
fits_running_only(current_chunk, sentence, chars_per_chunk) ==
    Len(current_chunk) < chars_per_chunk

\* the test of the accumulation loop
fits(current_chunk, sentence, chars_per_chunk) ==
    Len(current_chunk) + Len(sentence) < chars_per_chunk

\* the for loop over temp_sentences followed by the final flush
RECURSIVE chunk_loop(_, _, _, _)
chunk_loop(sentences, done_chunks, current_chunk, chars_per_chunk) ==
    IF sentences = <<>>
    THEN IF current_chunk # <<>>
         THEN Append(done_chunks, strip(current_chunk))
         ELSE done_chunks
    ELSE LET sentence == strip(Head(sentences))
         IN  IF sentence = <<>>
             THEN chunk_loop(Tail(sentences), done_chunks, current_chunk, chars_per_chunk)
             ELSE IF fits(current_chunk, sentence, chars_per_chunk)
                  THEN chunk_loop(Tail(sentences), done_chunks,
                                  current_chunk \o <<" ">> \o sentence, chars_per_chunk)
                  ELSE chunk_loop(Tail(sentences),
                                  Append(done_chunks, strip(current_chunk)),
                                  sentence, chars_per_chunk)

split_script_by_time(script, chars_per_chunk) ==
    chunk_loop(temp_sentences(script), <<>>, <<>>, chars_per_chunk)

----------------------------------------------------------------------------
(* make_filename                                                           *)

\* mutant of summary_of: six words are already shortened
summary_of_below_six(words) ==
    IF Len(words) < 6
    THEN str_join(words)
    ELSE str_join(SubSeq(words, 1, 3)) \o <<".", ".", ".">>
         \o str_join(SubSeq(words, Len(words) - 2, Len(words)))

summary_of(words) ==
    IF Len(words) <= 6
    THEN str_join(words)
    ELSE str_join(SubSeq(words, 1, 3)) \o <<".", ".", ".">>
         \o str_join(SubSeq(words, Len(words) - 2, Len(words)))

\* mutant of make_filename: the scene number is left out of the name
make_filename_unnumbered(scene_num, text_chunk) ==
    LET clean_line == remove_illegal(strip(str_replace(text_chunk, "\n", <<" ">>)))
        words      == str_words(clean_line)
    IN  <<"S">> \o <<"_">> \o summary_of(words) \o <<".", "p", "n", "g">>

make_filename(scene_num, text_chunk) ==
    LET clean_line == remove_illegal(strip(str_replace(text_chunk, "\n", <<" ">>)))
        words      == str_words(clean_line)
    IN  <<"S">> \o format_03d(scene_num) \o <<"_">> \o summary_of(words)
        \o <<".", "p", "n", "g">>

----------------------------------------------------------------------------
(* generate_prompt                                                         *)

\* what a call hands to future.result(): the returned value v, the returned
\* value None, or an exception that left the function
Some(v) == [raised |-> FALSE, present |-> TRUE, value |-> v]

None == [raised |-> FALSE, present |-> FALSE, value |-> <<>>]

Raised == [raised |-> TRUE, present |-> FALSE, value |-> <<>>]

\* text the remote model generates for a chunk (any string; this one shows
\* which chunk it was generated for and has whitespace for strip() to remove)
generated_text(text_chunk) == <<" ", "D", "r", "a", "w", ":">> \o text_chunk \o <<"\n">>

\* outcomes of requests.post(...): an answer with a status code, or an exception
TextResponses(text_chunk) ==
    { [raised |-> FALSE, status_code |-> 200, has_text |-> TRUE,
       text |-> generated_text(text_chunk)],
      [raised |-> FALSE, status_code |-> 200, has_text |-> FALSE, text |-> <<>>],
      [raised |-> FALSE, status_code |-> 429, has_text |-> FALSE, text |-> <<>>],
      [raised |-> FALSE, status_code |-> 500, has_text |-> FALSE, text |-> <<>>],
      [raised |-> TRUE, status_code |-> 0, has_text |-> FALSE,
       text |-> <<"t", "i", "m", "e", "o", "u", "t">>] }

\* mutant of generate_prompt: a missing completion text is not caught
generate_prompt_unguarded(index, text_chunk, response) ==
    LET scene_num == index + 1
    IN  IF response.raised
        THEN Some(<<scene_num, <<"E", "r", "r", "o", "r", ":", " ">> \o response.text>>)
        ELSE IF response.status_code = 200
        THEN IF response.has_text
             THEN Some(<<scene_num, strip(response.text)>>)
             ELSE Raised
        ELSE IF response.status_code = 429
        THEN Some(<<scene_num,
               <<"S", "c", "e", "n", "e", " ", "d", "e", "p", "i", "c", "t", "i", "n",
                 "g", ":", " ">> \o text_chunk>>)
        ELSE Some(<<scene_num,
               <<"E", "r", "r", "o", "r", " ", "g", "e", "n", "e", "r", "a", "t", "i",
                 "n", "g", " ", "p", "r", "o", "m", "p", "t", ":", " ">>
               \o decimal(response.status_code)>>)

\* the try block around requests.post and the inner try around the JSON path
generate_prompt(index, text_chunk, response) ==
    LET scene_num == index + 1
    IN  IF response.raised
        THEN Some(<<scene_num, <<"E", "r", "r", "o", "r", ":", " ">> \o response.text>>)
        ELSE IF response.status_code = 200
        THEN IF response.has_text
             THEN Some(<<scene_num, strip(response.text)>>)
             ELSE Some(<<scene_num, text_chunk>>)
        ELSE IF response.status_code = 429
        THEN Some(<<scene_num,
               <<"S", "c", "e", "n", "e", " ", "d", "e", "p", "i", "c", "t", "i", "n",
                 "g", ":", " ">> \o text_chunk>>)
        ELSE Some(<<scene_num,
               <<"E", "r", "r", "o", "r", " ", "g", "e", "n", "e", "r", "a", "t", "i",
                 "n", "g", " ", "p", "r", "o", "m", "p", "t", ":", " ">>
               \o decimal(response.status_code)>>)

\* time.sleep(2) of the 429 branch: the seconds generate_prompt sleeps
seconds_slept(response) ==
    IF ~response.raised /\ response.status_code = 429 THEN 2 ELSE 0

\* mutant of posts_again: a 429 answer makes the function post the request again
posts_again_on_429(response) ==
    ~response.raised /\ response.status_code = 429

\* whether generate_prompt calls requests.post again after this answer: every
\* branch of the try block returns
posts_again(response) == FALSE

----------------------------------------------------------------------------
(* generate_image and init_folders                                         *)

\* os.path.join(BASE_PATH, "output_images")
IMAGE_OUTPUT_DIR ==
    <<".", "/", "w", "e", "b", "_", "r", "e", "s", "u", "l", "t", "_", "f", "i", "l",
      "e", "s", "/", "o", "u", "t", "p", "u", "t", "_", "i", "m", "a", "g", "e", "s">>

\* os.path.join(output_dir, filename)
path_join(output_dir, filename) == output_dir \o <<"/">> \o filename

\* outcomes of the remote image call and of decoding and saving its payload
ImageOutcomes ==
    {"inline_image", "no_parts", "no_inline_data", "decode_error", "save_error",
     "api_error"}

\* mutant of generate_image: an exception of the remote call is not caught
generate_image_unguarded(prompt, filename, output_dir, outcome) ==
    IF outcome = "inline_image"
    THEN Some(path_join(output_dir, filename))
    ELSE IF outcome = "api_error" THEN Raised ELSE None

\* the value generate_image returns: full_path, or None
generate_image(prompt, filename, output_dir, outcome) ==
    IF outcome = "inline_image"
    THEN Some(path_join(output_dir, filename))
    ELSE None

\* the files generate_image leaves in output_dir
generate_image_files(filename, output_dir, outcome) ==
    IF outcome = "inline_image" THEN {path_join(output_dir, filename)} ELSE {}

\* init_folders: rmtree removes the directory (kept = {}), or fails part-way
\* and the exception is swallowed; kept are the files it did not remove
init_folders(old_files, kept) == old_files \cap kept

----------------------------------------------------------------------------
(* The run started by the start button.                                    *)

\* ThreadPoolExecutor(max_workers=10) of the prompt phase
PromptPoolWidth == 10

\* slider "chunk duration": 10 to 60 in steps of 5; explored 10, 15, ...
DurationSteps == 1

ChunkDurations == { 10 + 5 * k : k \in 0..DurationSteps }

\* slider "parallel workers": 1 to 10; explored 1..MaxWorkersExplored
MaxWorkersExplored == 2

\* the scenario script of the end-to-end test
HelloScript ==
    <<"H", "e", "l", "l", "o", " ", "w", "o", "r", "l", "d", ".", " ",
      "T", "h", "i", "s", " ", "i", "s", " ", "a", " ", "t", "e", "s", "t", ".", " ",
      "A", "n", "o", "t", "h", "e", "r", " ", "s", "e", "n", "t", "e", "n", "c", "e",
      " ", "h", "e", "r", "e", ".">>

Rep(c, n) == tuple([i \in 1..n |-> c])

\* three sentences of 41 characters
ThreeScript ==
    Rep("a", 40) \o <<".", " ">> \o Rep("b", 40) \o <<".", " ">> \o Rep("c", 40) \o <<".">>

\* a single sentence of 80 characters
LongFirstScript == Rep("x", 79) \o <<"?">>

\* scripts typed into the text area
RunScripts == { <<>>, <<" ", "\n">>, HelloScript, ThreeScript, LongFirstScript }

\* one sentence more than the prompt pool has workers, none of which fits in
\* a chunk with another
WideScript ==
    flatten([k \in 1..(PromptPoolWidth + 1) |-> Rep("w", 40) \o <<".", " ">>])

\* chars_limit = chunk_duration * 8
CharsLimits == { chunk_duration * 8 : chunk_duration \in ChunkDurations }

\* split_script_by_time of every script and limit a run can be started with
RunChunks ==
    [script \in RunScripts \cup {WideScript}, chars_limit \in CharsLimits |->
        split_script_by_time(script, chars_limit)]

\* make_filename of every scene of every such chunk list
RunFilenames ==
    [chunk_list \in { RunChunks[in] : in \in DOMAIN RunChunks } |->
        tuple([s_num \in 1..Len(chunk_list) |->
                 make_filename(s_num, chunk_list[s_num])])]

ApiKeys == {"", "key"}

VideoTitles == {"", "title"}

\* list.sort(key=...): stable insertion into an ascending list of <<key, item>>
RECURSIVE insert_keyed(_, _)
insert_keyed(sorted, x) ==
    IF sorted = <<>> THEN <<x>>
    ELSE IF sorted[Len(sorted)][1] <= x[1] THEN Append(sorted, x)
    ELSE Append(insert_keyed(SubSeq(sorted, 1, Len(sorted) - 1), x), sorted[Len(sorted)])

RECURSIVE sort_keyed(_)
sort_keyed(keyed) ==
    IF keyed = <<>> THEN <<>>
    ELSE insert_keyed(sort_keyed(SubSeq(keyed, 1, Len(keyed) - 1)), keyed[Len(keyed)])

\* mutant of sort_prompts: the list is left in completion order
sort_prompts_skipped(list) == list

\* prompts.sort(key=lambda x: x[0])
sort_prompts(list) ==
    LET sorted == sort_keyed([i \in 1..Len(list) |-> <<list[i][1], list[i]>>])
    IN  tuple([i \in 1..Len(list) |-> sorted[i][2]])

\* mutant of sort_results: the list is left in completion order
sort_results_skipped(list) == list

\* results.sort(key=lambda x: x['scene'])
sort_results(list) ==
    LET sorted == sort_keyed([i \in 1..Len(list) |-> <<list[i].scene, list[i]>>])
    IN  tuple([i \in 1..Len(list) |-> sorted[i][2]])

\* positions of the futures of a pool in a given state
InState(futures, state) == { i \in 1..Len(futures) : futures[i].state = state }

\* mutant of CanStart: the pool starts a thread for every submitted call
CanStart_any_width(futures, i, width) ==
    /\ i \in InState(futures, "pending")
    /\ \A j \in InState(futures, "pending") : i <= j

\* a worker of the pool takes the oldest pending future when one is free
CanStart(futures, i, width) ==
    /\ i \in InState(futures, "pending")
    /\ \A j \in InState(futures, "pending") : i <= j
    /\ Cardinality(InState(futures, "running") \cup InState(futures, "blocked")) < width

RunInit ==
    /\ pc = "idle"
    /\ is_processing = FALSE
    /\ generated_results = <<>>
    /\ status_box = "none"
    /\ message = "none"
    /\ progress_bar = <<0, 1>>
    /\ files = {}
    /\ chunks = <<>>
    /\ max_workers = 5
    /\ prompt_futures = <<>>
    /\ prompts = <<>>
    /\ image_futures = <<>>
    /\ future_to_meta = <<>>
    /\ results = <<>>

\* mutant of precondition: the video title is not checked
precondition_without_title(api_key, script_input, video_title) ==
    IF api_key = "" THEN "api_key_missing"
    ELSE IF script_input = <<>> THEN "script_missing"
    ELSE "none"

\* the if / elif chain of the start button: the message it shows, "none" when
\* the run may start
precondition(api_key, script_input, video_title) ==
    IF api_key = "" THEN "api_key_missing"
    ELSE IF script_input = <<>> THEN "script_missing"
    ELSE IF video_title = "" THEN "title_missing"
    ELSE "none"

\* if start_btn: the precondition checks, then the start of the run up to
\* the submission of the prompt futures
StartRun(api_key, script_input, video_title, chunk_duration, workers, kept) ==
    /\ pc = "idle"
    /\ IF precondition(api_key, script_input, video_title) # "none"
       THEN /\ message' = precondition(api_key, script_input, video_title)
            /\ UNCHANGED <<pc, is_processing, generated_results, status_box,
                           progress_bar, files, chunks, max_workers, prompt_futures,
                           prompts, image_futures, future_to_meta, results>>
       ELSE LET chars_limit == chunk_duration * 8
                new_chunks  == RunChunks[script_input, chars_limit]
            IN  /\ message' = "none"
                /\ is_processing' = TRUE
                /\ generated_results' = <<>>
                /\ files' = init_folders(files, kept)
                /\ status_box' = "running"
                /\ progress_bar' = <<0, 1>>
                /\ chunks' = new_chunks
                /\ max_workers' = workers
                /\ prompts' = <<>>
                /\ prompt_futures' =
                       tuple([i \in 1..Len(new_chunks) |->
                                [index |-> i - 1, text_chunk |-> new_chunks[i],
                                 state |-> "pending", result |-> None,
                                 requests |-> 0, slept |-> 0]])
                /\ image_futures' = <<>>
                /\ future_to_meta' = <<>>
                /\ results' = <<>>
                /\ pc' = "prompt_phase"
    /\ UNCHANGED <<fn_vars, page_vars>>

\* a pool worker starts generate_prompt for the oldest pending future
PromptStart(i) ==
    /\ pc = "prompt_phase"
    /\ CanStart(prompt_futures, i, PromptPoolWidth)
    /\ prompt_futures' = [prompt_futures EXCEPT ![i].state = "running",
                                                ![i].requests = @ + 1]
    /\ UNCHANGED <<pc, is_processing, generated_results, status_box, message,
                   progress_bar, files, chunks, max_workers, prompts, image_futures,
                   future_to_meta, results>>
    /\ UNCHANGED <<fn_vars, page_vars>>

\* requests.post returns or raises and generate_prompt returns
PromptReturn(i, response) ==
    /\ pc = "prompt_phase"
    /\ i \in InState(prompt_futures, "running")
    /\ prompt_futures' =
           IF posts_again(response)
           THEN [prompt_futures EXCEPT
                    ![i].requests = @ + 1,
                    ![i].slept = @ + seconds_slept(response)]
           ELSE [prompt_futures EXCEPT
                    ![i].state = "finished",
                    ![i].slept = @ + seconds_slept(response),
                    ![i].result = generate_prompt(prompt_futures[i].index,
                                                  prompt_futures[i].text_chunk,
                                                  response)]
    /\ UNCHANGED <<pc, is_processing, generated_results, status_box, message,
                   progress_bar, files, chunks, max_workers, prompts, image_futures,
                   future_to_meta, results>>
    /\ UNCHANGED <<fn_vars, page_vars>>

\* requests.post is called without a timeout: the server never answers and
\* the worker stays in the call
PromptBlock(i) ==
    /\ pc = "prompt_phase"
    /\ i \in InState(prompt_futures, "running")
    /\ prompt_futures' = [prompt_futures EXCEPT ![i].state = "blocked"]
    /\ UNCHANGED <<pc, is_processing, generated_results, status_box, message,
                   progress_bar, files, chunks, max_workers, prompts, image_futures,
                   future_to_meta, results>>
    /\ UNCHANGED <<fn_vars, page_vars>>

\* (i + 1) / (total_scenes * 2), as <<numerator, denominator>>
prompt_progress(i, total_scenes) == <<i + 1, total_scenes * 2>>

\* mutant of image_progress: the 0.5 of the first phase is not added
image_progress_restarting(completed_cnt, total_scenes) ==
    <<completed_cnt, total_scenes * 2>>

\* 0.5 + (completed_cnt / total_scenes * 0.5), as <<numerator, denominator>>
image_progress(completed_cnt, total_scenes) ==
    <<total_scenes + completed_cnt, total_scenes * 2>>

\* one iteration of: for i, future in enumerate(as_completed(futures));
\* future.result() re-raises an exception of the call, which ends the run
PromptCollect(i) ==
    /\ pc = "prompt_phase"
    /\ i \in InState(prompt_futures, "finished")
    /\ prompt_futures' = [prompt_futures EXCEPT ![i].state = "yielded"]
    /\ IF prompt_futures[i].result.raised
       THEN /\ pc' = "idle"
            /\ UNCHANGED <<prompts, progress_bar>>
       ELSE /\ prompts' = Append(prompts, prompt_futures[i].result.value)
            /\ progress_bar' = prompt_progress(Len(prompts), Len(chunks))
            /\ pc' = pc
    /\ UNCHANGED <<is_processing, generated_results, status_box, message, files,
                   chunks, max_workers, image_futures, future_to_meta, results>>
    /\ UNCHANGED <<fn_vars, page_vars>>

\* mutant of image_meta: the chunk is looked up from the wrong end of the list
image_meta_mirrored(prompt_item, chunk_list) ==
    LET s_num       == prompt_item[1]
        prompt_text == prompt_item[2]
        orig_text   == chunk_list[Len(chunk_list) + 1 - s_num]
        fname       == RunFilenames[chunk_list][s_num]
    IN  [scene |-> s_num, filename |-> fname, script |-> orig_text,
         prompt |-> prompt_text]

\* future_to_meta[future] of the image future submitted for one prompt
image_meta(prompt_item, chunk_list) ==
    LET s_num       == prompt_item[1]
        prompt_text == prompt_item[2]
        idx         == s_num - 1
        orig_text   == chunk_list[idx + 1]
        fname       == RunFilenames[chunk_list][s_num]
    IN  [scene |-> s_num, filename |-> fname, script |-> orig_text,
         prompt |-> prompt_text]

\* mutant of image_submission: a scene whose prompt is the raw chunk text
\* (the degraded prompt) is not submitted
image_submission_skipping(prompt_list, chunk_list) ==
    LET kept_list == SelectSeq(prompt_list, LAMBDA p : p[2] # chunk_list[p[1]])
    IN  tuple([k \in 1..Len(kept_list) |-> image_meta(kept_list[k], chunk_list)])

\* for s_num, prompt_text in prompts: one image future per prompt, in order
image_submission(prompt_list, chunk_list) ==
    tuple([k \in 1..Len(prompt_list) |-> image_meta(prompt_list[k], chunk_list)])

\* mutant of prompts_drained: the loop stops at the first completed prompt
prompts_drained_early(futures) ==
    \E i \in 1..Len(futures) : futures[i].state = "yielded"

\* as_completed(futures) is exhausted and the with block has joined the pool
prompts_drained(futures) ==
    \A i \in 1..Len(futures) : futures[i].state = "yielded"

\* the prompt pool is joined, prompts.sort, and every image future is submitted
EndPromptPhase ==
    /\ pc = "prompt_phase"
    /\ prompts_drained(prompt_futures)
    /\ \E sorted \in {sort_prompts(prompts)} :
           /\ prompts' = sorted
           /\ future_to_meta' = image_submission(sorted, chunks)
           /\ image_futures' =
                  tuple([k \in 1..Len(sorted) |->
                           [state |-> "pending", result |-> None]])
    /\ results' = <<>>
    /\ pc' = "image_phase"
    /\ UNCHANGED <<is_processing, generated_results, status_box, message, progress_bar,
                   files, chunks, max_workers, prompt_futures>>
    /\ UNCHANGED <<fn_vars, page_vars>>

\* a pool worker starts generate_image for the oldest pending future
ImageStart(k) ==
    /\ pc = "image_phase"
    /\ CanStart(image_futures, k, max_workers)
    /\ image_futures' = [image_futures EXCEPT ![k].state = "running"]
    /\ UNCHANGED <<pc, is_processing, generated_results, status_box, message,
                   progress_bar, files, chunks, max_workers, prompt_futures, prompts,
                   future_to_meta, results>>
    /\ UNCHANGED <<fn_vars, page_vars>>

\* generate_image returns
ImageReturn(k, outcome) ==
    /\ pc = "image_phase"
    /\ k \in InState(image_futures, "running")
    /\ image_futures' =
           [image_futures EXCEPT
               ![k].state = "finished",
               ![k].result = generate_image(future_to_meta[k].prompt,
                                            future_to_meta[k].filename,
                                            IMAGE_OUTPUT_DIR, outcome)]
    /\ files' = files \cup generate_image_files(future_to_meta[k].filename,
                                                IMAGE_OUTPUT_DIR, outcome)
    /\ UNCHANGED <<pc, is_processing, generated_results, status_box, message,
                   progress_bar, chunks, max_workers, prompt_futures, prompts,
                   future_to_meta, results>>
    /\ UNCHANGED <<fn_vars, page_vars>>

\* mutant of keeps: the test of the path is missing
keeps_all(path) == TRUE

\* if path: of the collection loop
keeps(path) == path.present /\ path.value # <<>>

\* one iteration of: for future in as_completed(future_to_meta);
\* future.result() re-raises an exception of the call, which ends the run
ImageCollect(k) ==
    /\ pc = "image_phase"
    /\ k \in InState(image_futures, "finished")
    /\ image_futures' = [image_futures EXCEPT ![k].state = "yielded"]
    /\ IF image_futures[k].result.raised
       THEN /\ pc' = "idle"
            /\ UNCHANGED <<results, progress_bar>>
       ELSE LET meta == future_to_meta[k]
                path == image_futures[k].result
                completed_cnt == Cardinality(InState(image_futures, "yielded")) + 1
            IN  /\ results' =
                       IF keeps(path)
                       THEN Append(results,
                                   [scene |-> meta.scene, path |-> path.value,
                                    filename |-> meta.filename, script |-> meta.script,
                                    prompt |-> meta.prompt])
                       ELSE results
                /\ progress_bar' = image_progress(completed_cnt, Len(chunks))
                /\ pc' = pc
    /\ UNCHANGED <<is_processing, generated_results, status_box, message, files,
                   chunks, max_workers, prompt_futures, prompts, future_to_meta>>
    /\ UNCHANGED <<fn_vars, page_vars>>

\* mutant of images_drained: the loop over the image futures needs a first
\* future to end
images_drained_after_first(futures) ==
    /\ Len(futures) > 0
    /\ \A k \in 1..Len(futures) : futures[k].state = "yielded"

\* as_completed(future_to_meta) is exhausted and the with block has joined
\* the pool
images_drained(futures) ==
    \A k \in 1..Len(futures) : futures[k].state = "yielded"

\* the image pool is joined, results.sort, and the results are published
FinishRun ==
    /\ pc = "image_phase"
    /\ images_drained(image_futures)
    /\ results' = sort_results(results)
    /\ generated_results' = sort_results(results)
    /\ status_box' = "complete"
    /\ is_processing' = FALSE
    /\ pc' = "idle"
    /\ UNCHANGED <<message, progress_bar, files, chunks, max_workers, prompt_futures,
                   prompts, image_futures, future_to_meta>>
    /\ UNCHANGED <<fn_vars, page_vars>>

----------------------------------------------------------------------------
(* The script-writer page and the theme-title field. Streamlit runs the    *)
(* whole script again for every user event; session_state is what one     *)
(* rerun leaves for the next.                                              *)

\* st.session_state[key] = value
set_item(ss, key, value) == (key :> value) @@ ss

\* if key not in st.session_state: st.session_state[key] = value
init_item(ss, key, value) == IF key \in DOMAIN ss THEN ss ELSE set_item(ss, key, value)

\* mapping.get(key, default)
get(mapping, key, default) == IF key \in DOMAIN mapping THEN mapping[key] ELSE default

\* {} : the dictionary without keys
EmptyDict == [key \in {} |-> ""]

\* The text generate_structure returns, as what the page's regular
\* expressions find in it: whether the title pattern matches, the title it
\* yields after the bracketed parts are removed and the text is stripped,
\* and the chapter lines in order of first appearance.
StructureA == [present |-> TRUE, matched |-> TRUE, title |-> "Theme A",
               chapters |-> <<"Chapter 1">>]

StructureB == [present |-> TRUE, matched |-> TRUE, title |-> "Theme B",
               chapters |-> <<"Chapter 1", "Chapter 2">>]

\* "Error: ..." returned when the request raises: no title, no chapter
StructureError == [present |-> TRUE, matched |-> FALSE, title |-> "",
                   chapters |-> <<>>]

Structures == {StructureA, StructureB, StructureError}

\* st.session_state['structured_content'] = None
NoStructure == [present |-> FALSE, matched |-> FALSE, title |-> "", chapters |-> <<>>]

\* texts generate_section returns and the user types into a section's area
SectionTexts == {"", "first text", "second text"}

\* what the user types into the title fields
TypedTitles == {"", "My title", "Theme A"}

\* the cleaned lines of a title recommendation
SixCandidates == <<"Theme C", "Theme D", "Theme E", "Theme F", "Theme G", "Theme H">>

CandidateResponses == {Some(<<"Theme C">>), Some(SixCandidates), Raised}

MaxCandidates == 5

TitleNotFound == "title not found"

\* the widgets and buttons of one rerun: which button was clicked, the
\* values of the widgets without a key, and what the remote model answers
NoEvent == [analyze_btn |-> FALSE, recommend_btn |-> FALSE, api_key |-> "",
            user_title_input |-> "", raw_script |-> "",
            result_text |-> StructureError, response |-> Raised]

\* session initialisation at the top of the script
session_defaults(ss) ==
    init_item(init_item(init_item(init_item(ss,
        "structured_content", NoStructure),
        "section_scripts", EmptyDict),
        "video_title", ""),
        "user_initial_title", "")

\* the handler of the structure-analysis button
analyze_handler(ss, ev) ==
    IF ~ev.analyze_btn THEN ss
    ELSE IF ev.api_key = "" THEN ss
    ELSE IF ev.raw_script = "" THEN ss
    ELSE LET s1 == set_item(ss, "user_initial_title", ev.user_title_input)
             s2 == set_item(s1, "structured_content", ev.result_text)
             s3 == set_item(s2, "section_scripts", EmptyDict)
         IN  IF ev.result_text.matched
             THEN set_item(s3, "video_title", ev.result_text.title)
             ELSE set_item(s3, "video_title",
                           IF ev.user_title_input # "" THEN ev.user_title_input
                           ELSE TitleNotFound)

\* chapter_titles: Intro, the chapters found in the structure, Epilogue
chapter_titles(structured_content) ==
    <<"Intro">> \o structured_content.chapters \o <<"Epilogue">>

\* key of the text area of a section
txt_key(title) == "txt_" \o title

\* for title in chapter_titles: an absent section script becomes ""
RECURSIVE section_scripts_defaults(_, _, _)
section_scripts_defaults(section_scripts, titles, i) ==
    IF i > Len(titles) THEN section_scripts
    ELSE section_scripts_defaults(init_item(section_scripts, titles[i], ""), titles, i + 1)

\* the body of the section loop for one title, when no regeneration button
\* is clicked: the text area's state is created from the stored script if
\* absent, and the text area's value is stored as the section's script
section_body(ss, title) ==
    LET keyed == init_item(ss, txt_key(title), get(ss["section_scripts"], title, ""))
        new_text == keyed[txt_key(title)]
    IN  set_item(keyed, "section_scripts",
                 set_item(keyed["section_scripts"], title, new_text))

\* the section loop over titles[i..last]
RECURSIVE section_loop(_, _, _, _)
section_loop(ss, titles, i, last) ==
    IF i > last THEN ss
    ELSE section_loop(section_body(ss, titles[i]), titles, i + 1, last)

\* the script-generation part of the script; clicked is the position of the
\* section whose regeneration button was clicked, where the loop stops, and
\* 0 when none was
section_block(ss, clicked) ==
    IF ~ss["structured_content"].present THEN ss
    ELSE LET titles == chapter_titles(ss["structured_content"])
             s1 == set_item(ss, "section_scripts",
                            section_scripts_defaults(ss["section_scripts"], titles, 1))
         IN  section_loop(s1, titles, 1, IF clicked = 0 THEN Len(titles) ELSE clicked - 1)

\* the handler of the title-recommendation button
recommend_handler(ss, ev) ==
    LET s1 == init_item(ss, "title_candidates", <<>>)
    IN  IF ~ev.recommend_btn THEN s1
        ELSE IF ev.api_key = "" THEN s1
        ELSE IF ~s1["structured_content"].present THEN s1
        ELSE IF ev.response.raised THEN s1
        ELSE set_item(s1, "title_candidates",
                      SubSeq(ev.response.value, 1,
                             IF Len(ev.response.value) < MaxCandidates
                             THEN Len(ev.response.value) ELSE MaxCandidates))

\* the theme-title field and its synchronisation with video_title
title_block(ss) ==
    LET s1 == init_item(ss, "video_title_input_field", ss["video_title"])
        s2 == IF s1["video_title"] # s1["video_title_input_field"]
              THEN set_item(s1, "video_title_input_field", s1["video_title"])
              ELSE s1
        video_title_input == s2["video_title_input_field"]
    IN  set_item(s2, "video_title", video_title_input)

\* the keys of the widgets a complete rerun rendered
rendered_keys(ss) ==
    {"video_title_input_field"} \cup
    (IF ss["structured_content"].present
     THEN {txt_key(chapter_titles(ss["structured_content"])[i]) :
              i \in 1..Len(chapter_titles(ss["structured_content"]))}
     ELSE {})

SessionKeys == {"structured_content", "section_scripts", "video_title",
                "user_initial_title", "title_candidates"}

\* at the end of a complete rerun Streamlit drops the state of the widgets
\* the rerun did not render
drop_stale_widgets(ss) ==
    [key \in (DOMAIN ss) \cap (SessionKeys \cup rendered_keys(ss)) |-> ss[key]]

\* one complete rerun of the script, from the session state the event left
page_script(ss, ev) ==
    drop_stale_widgets(
        title_block(
            recommend_handler(
                section_block(analyze_handler(session_defaults(ss), ev), 0),
                ev)))

\* the session after the first run of the script
FirstRun == page_script(EmptyDict, NoEvent)

\* the user replaces the text of the theme-title field: the widget's state
\* holds the typed value when the rerun starts
TypeTitle(T) ==
    /\ changed_widget = ""
    /\ session_state' = set_item(session_state, "video_title_input_field", T)
    /\ changed_widget' = "video_title_input_field"
    /\ UNCHANGED <<run_vars, fn_vars>>

\* the rerun an edited widget triggers
Rerun ==
    /\ changed_widget # ""
    /\ session_state' = page_script(session_state, NoEvent)
    /\ changed_widget' = ""
    /\ UNCHANGED <<run_vars, fn_vars>>

\* the user clicks the structure-analysis button
ClickAnalyze(api_key, user_title_input, raw_script, result_text) ==
    /\ changed_widget = ""
    /\ session_state' = page_script(session_state,
           [NoEvent EXCEPT !.analyze_btn = TRUE, !.api_key = api_key,
                           !.user_title_input = user_title_input,
                           !.raw_script = raw_script, !.result_text = result_text])
    /\ UNCHANGED <<run_vars, fn_vars, changed_widget>>

\* the sections whose expander the page shows
ShownSections ==
    IF session_state["structured_content"].present
    THEN 1..Len(chapter_titles(session_state["structured_content"]))
    ELSE {}

\* the user replaces the text of the i-th section's text area
EditSection(i, new_text) ==
    /\ changed_widget = ""
    /\ i \in ShownSections
    /\ LET title == chapter_titles(session_state["structured_content"])[i]
       IN  /\ session_state' = set_item(session_state, txt_key(title), new_text)
           /\ changed_widget' = txt_key(title)
    /\ UNCHANGED <<run_vars, fn_vars>>

\* the user clicks a regeneration button of the i-th section: the rerun
\* reaches the button, stores the result and calls st.rerun()
ClickRegenerate(i, result) ==
    /\ changed_widget = ""
    /\ i \in ShownSections
    /\ LET title == chapter_titles(session_state["structured_content"])[i]
           reached == section_block(session_defaults(session_state), i)
           s1 == set_item(reached, "section_scripts",
                          set_item(reached["section_scripts"], title, result))
           s2 == set_item(s1, txt_key(title), result)
       IN  session_state' = page_script(s2, NoEvent)
    /\ UNCHANGED <<run_vars, fn_vars, changed_widget>>

\* the user clicks the title-recommendation button
ClickRecommend(api_key, response) ==
    /\ changed_widget = ""
    /\ session_state' = page_script(session_state,
           [NoEvent EXCEPT !.recommend_btn = TRUE, !.api_key = api_key,
                           !.response = response])
    /\ UNCHANGED <<run_vars, fn_vars, changed_widget>>

\* the callback of the selection button of a recommended title
apply_title(ss, new_title) ==
    set_item(set_item(set_item(ss,
        "video_title", new_title),
        "video_title_input_field", new_title),
        "title_candidates", <<>>)

\* the user clicks the selection button of the idx-th recommended title
ClickApplyTitle(idx) ==
    /\ changed_widget = ""
    /\ idx \in 1..Len(session_state["title_candidates"])
    /\ session_state' = page_script(
           apply_title(session_state, session_state["title_candidates"][idx]), NoEvent)
    /\ UNCHANGED <<run_vars, fn_vars, changed_widget>>

\* the callback of the button closing the list of recommended titles
close_list(ss) == set_item(ss, "title_candidates", <<>>)

ClickCloseList ==
    /\ changed_widget = ""
    /\ session_state["title_candidates"] # <<>>
    /\ session_state' = page_script(close_list(session_state), NoEvent)
    /\ UNCHANGED <<run_vars, fn_vars, changed_widget>>

PageNext ==
    \/ \E T \in TypedTitles : TypeTitle(T)
    \/ Rerun
    \/ \E api_key \in ApiKeys, user_title_input \in TypedTitles,
          raw_script \in {"", "raw script"}, result_text \in Structures :
           ClickAnalyze(api_key, user_title_input, raw_script, result_text)
    \/ \E i \in ShownSections, new_text \in SectionTexts : EditSection(i, new_text)
    \/ \E i \in ShownSections, result \in SectionTexts : ClickRegenerate(i, result)
    \/ \E api_key \in ApiKeys, response \in CandidateResponses :
           ClickRecommend(api_key, response)
    \/ \E idx \in 1..MaxCandidates : ClickApplyTitle(idx)
    \/ ClickCloseList

----------------------------------------------------------------------------
(* The run's steps and the specifications.                                 *)

\* the steps of the workers and of the main thread of a started run
RunStep ==
    \/ \E i \in 1..Len(prompt_futures) : PromptStart(i)
    \/ \E i \in 1..Len(prompt_futures) :
           \E response \in TextResponses(prompt_futures[i].text_chunk) :
               PromptReturn(i, response)
    \/ \E i \in 1..Len(prompt_futures) : PromptCollect(i)
    \/ EndPromptPhase
    \/ \E k \in 1..Len(image_futures) : ImageStart(k)
    \/ \E k \in 1..Len(image_futures) : \E outcome \in ImageOutcomes :
           ImageReturn(k, outcome)
    \/ \E k \in 1..Len(image_futures) : ImageCollect(k)
    \/ FinishRun

Next ==
    \/ \E api_key \in ApiKeys, script_input \in RunScripts, video_title \in VideoTitles,
          chunk_duration \in ChunkDurations, workers \in 1..MaxWorkersExplored,
          kept \in {{}} :  \* the runs explored start with rmtree succeeding
           StartRun(api_key, script_input, video_title, chunk_duration, workers, kept)
    \/ RunStep
    \/ \E i \in 1..Len(prompt_futures) : PromptBlock(i)

Init ==
    /\ RunInit
    /\ fn_pc = "input"
    /\ fn_script = <<>>
    /\ fn_limit = 1
    /\ fn_chunks = <<>>
    /\ fn_names = <<>>
    /\ session_state = FirstRun
    /\ changed_widget = ""

Spec == Init /\ [][Next]_vars

\* the user's events on the script-writer page and the title field
PageSpec == Init /\ [][PageNext]_vars

\* the pool workers and the main thread keep running; nothing makes the
\* server answer a request
FairSpec == Spec /\ WF_vars(RunStep)

\* scripts of the runs explored with shutil.rmtree failing
LeftoverScripts == { <<>>, HelloScript, LongFirstScript }

\* the runs in which shutil.rmtree may raise after removing only some of the
\* files: the exception is swallowed and kept are the files still there
LeftoverNext ==
    \/ \E api_key \in ApiKeys, script_input \in LeftoverScripts,
          video_title \in VideoTitles, chunk_duration \in {10},
          workers \in {1}, kept \in SUBSET files :
           StartRun(api_key, script_input, video_title, chunk_duration, workers, kept)
    \/ RunStep
    \/ \E i \in 1..Len(prompt_futures) : PromptBlock(i)

LeftoverSpec == Init /\ [][LeftoverNext]_vars

\* runs of more scenes than this are explored with a server that leaves
\* every request unanswered
MaxScenesAnswered == 3

\* scripts of the runs explored for the width of the pools
PoolScripts == { ThreeScript, WideScript }

\* the runs that fill the pools: more prompt calls than the prompt pool is
\* wide, and more image calls than the image pool is wide
PoolNext ==
    \/ \E api_key \in ApiKeys, script_input \in PoolScripts,
          video_title \in VideoTitles, chunk_duration \in {10},
          workers \in 1..MaxWorkersExplored, kept \in {{}} :
           StartRun(api_key, script_input, video_title, chunk_duration, workers, kept)
    \/ \E i \in 1..Len(prompt_futures) : PromptStart(i)
    \/ \E i \in 1..Len(prompt_futures) : PromptBlock(i)
    \/ Len(chunks) <= MaxScenesAnswered /\ RunStep

PoolSpec == Init /\ [][PoolNext]_vars

----------------------------------------------------------------------------
(* Harness applying the pure functions to bounded inputs.                  *)

Alphabet == {"a", "b", ".", "?", " ", "|"}

\* every script over Alphabet of length 0..MaxScriptLen
ExploredScripts ==
    UNION { [1..n -> Alphabet] : n \in 0..MaxScriptLen }

\* "a b! c d. e f g? h\ni"
MixedScript ==
    <<"a", " ", "b", "!", " ", "c", " ", "d", ".", " ", "e", " ", "f", " ", "g", "?",
      " ", "h", "\n", "i">>

\* " \n\t "
BlankScript == <<" ", "\n", "\t", " ">>

\* "hello world"
TwoWords == <<"h", "e", "l", "l", "o", " ", "w", "o", "r", "l", "d">>

\* "a b c d e f"
SixWords == <<"a", " ", "b", " ", "c", " ", "d", " ", "e", " ", "f">>

\* "a b c d e f g h"
EightWords == <<"a", " ", "b", " ", "c", " ", "d", " ", "e", " ", "f", " ", "g", " ", "h">>

\* (script, chars_per_chunk) pairs given to split_script_by_time
FnInputs ==
    (ExploredScripts \X (1..MaxLimit))
    \cup {<<HelloScript, 30>>, <<HelloScript, 100>>, <<MixedScript, 100>>,
          <<MixedScript, 3>>, <<MixedScript, 5>>, <<BlankScript, 100>>,
          <<TwoWords, 100>>, <<SixWords, 100>>, <<EightWords, 100>>,
          <<WideScript, 80>>}

FnInit ==
    /\ RunInit
    /\ fn_pc = "input"
    /\ \E in \in FnInputs : fn_script = in[1] /\ fn_limit = in[2]
    /\ fn_chunks = <<>>
    /\ fn_names = <<>>
    /\ session_state = FirstRun
    /\ changed_widget = ""

\* chunks = split_script_by_time(script_input, chars_per_chunk=chars_limit)
ApplySplit ==
    /\ fn_pc = "input"
    /\ fn_chunks' = split_script_by_time(fn_script, fn_limit)
    /\ fn_pc' = "split"
    /\ UNCHANGED <<fn_script, fn_limit, fn_names>>
    /\ UNCHANGED <<run_vars, page_vars>>

\* fname = make_filename(s_num, orig_text) for s_num = 1..len(chunks)
ApplyNames ==
    /\ fn_pc = "split"
    /\ fn_names' = tuple([i \in 1..Len(fn_chunks) |-> make_filename(i, fn_chunks[i])])
    /\ fn_pc' = "named"
    /\ UNCHANGED <<fn_script, fn_limit, fn_chunks>>
    /\ UNCHANGED <<run_vars, page_vars>>

FnNext == ApplySplit \/ ApplyNames

FnSpec == FnInit /\ [][FnNext]_vars

----------------------------------------------------------------------------
(* Properties of the run (under Spec, FairSpec, LeftoverSpec, PoolSpec).   *)

IsAscending(keys) == \A i \in 1..(Len(keys) - 1) : keys[i] < keys[i + 1]

prompt_scenes == [j \in 1..Len(prompts) |-> prompts[j][1]]

meta_scenes == [k \in 1..Len(future_to_meta) |-> future_to_meta[k].scene]

result_scenes(list) == [j \in 1..Len(list) |-> list[j].scene]

Ended(futures) == InState(futures, "finished") \cup InState(futures, "yielded")

\* the run reached its last statement
RunCompleted == pc = "idle" /\ status_box = "complete" /\ ~is_processing

\* an exception left the run: the script ended between the first and the last
\* statement of the run
RunAborted == pc = "idle" /\ is_processing

\* C1: the prompt list given to the image phase and the result list stored as
\* the final results are in strictly ascending scene order, whatever the
\* completion order of the futures.
SortedHandOff ==
    /\ pc = "image_phase" => IsAscending(prompt_scenes) /\ IsAscending(meta_scenes)
    /\ RunCompleted => IsAscending(result_scenes(generated_results))

SortedHandOffReached ==
    /\ RunCompleted
    /\ Len(prompts) = 3
    /\ Len(generated_results) >= 2

\* C2: when a run completes, the final results are exactly the scenes whose
\* image call returned a path: N - K entries when K of the N calls returned
\* None; and no run is left by an exception.
ResultsAreTheSuccesses ==
    /\ RunCompleted =>
           LET absent   == { k \in 1..Len(image_futures) :
                               ~image_futures[k].result.present }
               returned == { future_to_meta[k].scene :
                               k \in (1..Len(image_futures)) \ absent }
           IN  /\ Len(image_futures) = Len(chunks)
               /\ Len(generated_results) = Len(chunks) - Cardinality(absent)
               /\ { generated_results[j].scene : j \in 1..Len(generated_results) }
                      = returned
    /\ ~RunAborted

PartialResultsReached ==
    /\ RunCompleted
    /\ Len(chunks) = 3
    /\ Len(generated_results) = 1
    /\ generated_results[1].scene = 2

\* C3: no image call has started unless every prompt call of the run has
\* completed and been collected and the prompt list is sorted by scene.
ImagesAfterPrompts ==
    (\E k \in 1..Len(image_futures) : image_futures[k].state # "pending")
        => /\ \A i \in 1..Len(prompt_futures) : prompt_futures[i].state = "yielded"
           /\ Len(prompts) = Len(prompt_futures)
           /\ IsAscending(prompt_scenes)

ImageStartedReached ==
    /\ pc = "image_phase"
    /\ Len(chunks) = 3
    /\ \E k \in 1..Len(image_futures) : image_futures[k].state = "running"

\* C4: every scene 1..N is submitted to generate_prompt exactly once and,
\* afterwards, to generate_image exactly once; it gets exactly one prompt
\* and at most one result entry.
EachSceneOncePerPhase ==
    LET N == Len(chunks)
    IN  /\ Len(prompt_futures) = N
        /\ \A i \in 1..Len(prompt_futures) :
               /\ prompt_futures[i].index = i - 1
               /\ prompt_futures[i].text_chunk = chunks[i]
        /\ pc = "prompt_phase" => image_futures = <<>>
        /\ \A s \in 1..N :
               Cardinality({ j \in 1..Len(prompts) : prompts[j][1] = s })
                   = IF prompt_futures[s].state = "yielded" THEN 1 ELSE 0
        /\ (pc = "image_phase" \/ RunCompleted) =>
               /\ Len(image_futures) = N
               /\ Len(future_to_meta) = N
               /\ \A s \in 1..N :
                      /\ Cardinality({ k \in 1..Len(future_to_meta) :
                                         future_to_meta[k].scene = s }) = 1
                      /\ Cardinality({ j \in 1..Len(results) :
                                         results[j].scene = s }) <= 1

DegradedSceneImagedReached ==
    /\ RunCompleted
    /\ Len(chunks) = 3
    /\ \E j \in 1..Len(generated_results) :
           /\ generated_results[j].prompt = generated_results[j].script
           /\ generated_results[j].scene = 2

\* C5: generate_prompt returns (index + 1, prompt) for every outcome of the
\* remote call and never raises, so the image phase starts with exactly one
\* prompt for each scene 1..N.
PromptAlwaysReturned ==
    /\ \A i \in Ended(prompt_futures) :
           /\ ~prompt_futures[i].result.raised
           /\ prompt_futures[i].result.present
           /\ Len(prompt_futures[i].result.value) = 2
           /\ prompt_futures[i].result.value[1] = prompt_futures[i].index + 1
    /\ pc = "image_phase" =>
           /\ Len(prompts) = Len(chunks)
           /\ \A s \in 1..Len(chunks) : \E j \in 1..Len(prompts) : prompts[j][1] = s
    /\ ~RunAborted

FallbackPromptsReached ==
    /\ pc = "image_phase"
    /\ Len(prompts) = 3
    /\ prompts[1][2] = chunks[1]
    /\ starts_with(prompts[2][2], <<"S", "c", "e", "n", "e", " ", "d">>)
    /\ starts_with(prompts[3][2], <<"E", "r", "r", "o", "r">>)

\* C6: when the image response has no inline image, or decoding or saving
\* fails, or the remote call raises, generate_image returns None and raises
\* nothing, and the step changes no other future, no result and no file;
\* every image future of a completed run has run to its end.
ImageFailureIsLocal ==
    /\ [][\A k \in 1..Len(image_futures) :
            \A outcome \in ImageOutcomes \ {"inline_image"} :
              ImageReturn(k, outcome) =>
                /\ image_futures'[k].result = None
                /\ \A j \in (1..Len(image_futures)) \ {k} :
                       image_futures'[j] = image_futures[j]
                /\ results' = results
                /\ files' = files
                /\ pc' = pc]_vars
    /\ [](\A k \in Ended(image_futures) : ~image_futures[k].result.raised)
    /\ [](RunCompleted => \A k \in 1..Len(image_futures) :
                              image_futures[k].state = "yielded")
    /\ [](~RunAborted)

ImageFailureBesideSuccessReached ==
    /\ RunCompleted
    /\ Len(image_futures) = 3
    /\ image_futures[1].result = None
    /\ image_futures[2].result.present
    /\ image_futures[3].result.present
    /\ Len(generated_results) = 2

\* C7: every started run eventually completes: the results are published and
\* is_processing is False again.
RunEventuallyCompletes == is_processing ~> RunCompleted

\* C14: a start request with the API key missing, the script empty or the
\* video title missing has no effect: the output directory keeps its files,
\* the stored results of the previous run are unchanged, and no prompt or
\* image call is submitted.
RejectedStartHasNoEffect ==
    [][\A api_key \in ApiKeys, script_input \in LeftoverScripts,
          video_title \in VideoTitles, kept \in SUBSET files :
            ( /\ api_key = "" \/ script_input = <<>> \/ video_title = ""
              /\ StartRun(api_key, script_input, video_title, 10, 1, kept) )
            => /\ files' = files
               /\ generated_results' = generated_results
               /\ is_processing' = is_processing
               /\ prompt_futures' = prompt_futures
               /\ image_futures' = image_futures
               /\ pc' = "idle"]_vars

RejectedAfterRunReached ==
    /\ message = "title_missing"
    /\ pc = "idle"
    /\ Len(generated_results) = 2
    /\ Cardinality(files) = 2

\* C15: when a run completes, the output directory holds exactly the files of
\* the scenes in the final results of that run, and no file of an earlier run.
DirectoryHoldsTheResults ==
    RunCompleted =>
        files = { generated_results[j].path : j \in 1..Len(generated_results) }

\* the calls of a pool that a worker is executing
InFlight(futures) == InState(futures, "running") \cup InState(futures, "blocked")

\* C16: at every moment at most 10 generate_prompt calls and at most
\* max_workers (a value in 1..10) generate_image calls are in flight.
InFlightWithinWidth ==
    /\ Cardinality(InFlight(prompt_futures)) <= 10
    /\ Cardinality(InFlight(image_futures)) <= max_workers
    /\ max_workers \in 1..10

PromptPoolFullReached ==
    /\ pc = "prompt_phase"
    /\ Cardinality(InFlight(prompt_futures)) = 10
    /\ InState(prompt_futures, "pending") # {}

\* C17: in a run of N >= 1 scenes the k-th collected prompt reports k/(2N)
\* and the k-th collected image reports 0.5 + k/(2N); every reported value is
\* in [0,1], the values of a run never decrease, and the last one is 1.
ProgressReported ==
    /\ [](progress_bar[2] > 0 /\ 0 <= progress_bar[1]
            /\ progress_bar[1] <= progress_bar[2])
    /\ [][\A i \in 1..Len(prompt_futures) :
            PromptCollect(i) =>
                progress_bar'[1] * (2 * Len(chunks)) = Len(prompts') * progress_bar'[2]]_vars
    /\ [][\A k \in 1..Len(image_futures) :
            ImageCollect(k) =>
                progress_bar'[1] * (2 * Len(chunks))
                    = (Len(chunks) + Cardinality(InState(image_futures', "yielded")))
                      * progress_bar'[2]]_vars
    /\ [][pc # "idle" =>
            progress_bar'[1] * progress_bar[2] >= progress_bar[1] * progress_bar'[2]]_vars
    /\ [](RunCompleted /\ Len(chunks) >= 1 => progress_bar[1] = progress_bar[2])

FullProgressReached ==
    /\ RunCompleted
    /\ Len(chunks) = 3
    /\ progress_bar = <<6, 6>>

RateLimited(text_chunk) ==
    { response \in TextResponses(text_chunk) :
        ~response.raised /\ response.status_code = 429 }

\* C18: on a 429 answer generate_prompt posts no further request (one request
\* per call), sleeps once, and returns (index + 1, "Scene depicting: " + the
\* chunk text) without raising.
RateLimitGivesFallback ==
    /\ [][\A i \in 1..Len(prompt_futures) :
            \A response \in RateLimited(prompt_futures[i].text_chunk) :
              PromptReturn(i, response) =>
                /\ prompt_futures'[i].state = "finished"
                /\ prompt_futures'[i].requests = 1
                /\ prompt_futures'[i].slept = 2
                /\ prompt_futures'[i].result =
                       Some(<<prompt_futures[i].index + 1,
                              <<"S", "c", "e", "n", "e", " ", "d", "e", "p", "i", "c",
                                "t", "i", "n", "g", ":", " ">>
                              \o prompt_futures[i].text_chunk>>)]_vars
    /\ [](\A i \in 1..Len(prompt_futures) : prompt_futures[i].requests <= 1)
    /\ [](~RunAborted)

RateLimitedSceneReached ==
    /\ pc = "image_phase"
    /\ Len(prompt_futures) = 3
    /\ prompt_futures[2].slept = 2
    /\ prompt_futures[2].requests = 1
    /\ starts_with(prompts[2][2], <<"S", "c", "e", "n", "e", " ", "d", "e", "p">>)
    /\ prompt_futures[1].slept = 0

\* a result entry holds the data of its own scene
OwnSceneData(entry) ==
    /\ entry.scene \in 1..Len(chunks)
    /\ entry.script = chunks[entry.scene]
    /\ entry.filename = make_filename(entry.scene, chunks[entry.scene])
    /\ entry.path = path_join(IMAGE_OUTPUT_DIR, entry.filename)
    /\ entry.prompt = prompt_futures[entry.scene].result.value[2]
    /\ prompt_futures[entry.scene].result.value[1] = entry.scene

\* C21: every entry of the results with scene s carries chunks[s-1], the
\* filename made from (s, chunks[s-1]) and the prompt generate_prompt returned
\* for scene s, whatever the completion order in either phase.
ResultsKeepSceneData ==
    /\ \A j \in 1..Len(results) : OwnSceneData(results[j])
    /\ RunCompleted =>
           \A j \in 1..Len(generated_results) : OwnSceneData(generated_results[j])

MixedPromptKindsReached ==
    /\ RunCompleted
    /\ Len(generated_results) = 3
    /\ generated_results[1].prompt = chunks[1]
    /\ starts_with(generated_results[2].prompt, <<"D", "r", "a", "w", ":", "b">>)
    /\ starts_with(generated_results[3].prompt, <<"S", "c", "e", "n", "e", " ", "d">>)

\* C24: a run that passes the checks of the start button with a script that
\* splits into zero chunks submits no prompt call and no image call, never
\* gives the progress bar a value after its initial 0, can always take its
\* next step, and ends completed with an empty final result list.
ZeroChunkRunCompletes ==
    (status_box # "none" /\ chunks = <<>>) =>
        /\ prompt_futures = <<>> /\ prompts = <<>>
        /\ image_futures = <<>> /\ future_to_meta = <<>> /\ results = <<>>
        /\ progress_bar = <<0, 1>>
        /\ pc = "prompt_phase" => ENABLED EndPromptPhase
        /\ pc = "image_phase" => ENABLED FinishRun
        /\ pc = "idle" => RunCompleted /\ generated_results = <<>>

\* a run with zero chunks has completed
ZeroChunkRunReached ==
    /\ RunCompleted /\ chunks = <<>> /\ message = "none"
    /\ generated_results = <<>> /\ progress_bar = <<0, 1>>

\* C22: when the user types a value T into the theme-title field, after the
\* rerun triggered by that edit the stored theme title video_title equals T
\* and the field still holds T, so a typed non-empty title passes the title
\* check of the start button.
TypedTitleIsStored ==
    [][\A T \in TypedTitles :
          (/\ changed_widget = "video_title_input_field"
           /\ session_state["video_title_input_field"] = T
           /\ Rerun) =>
              /\ session_state'["video_title"] = T
              /\ session_state'["video_title_input_field"] = T
              /\ T # "" => precondition("key", HelloScript, session_state'["video_title"]) = "none"]_vars

\* C23: at the end of the rerun in which a structure analysis completes, the
\* stored script text of every section, Intro and Epilogue included, is
\* empty.
AnalysisEmptiesSectionScripts ==
    [][\A user_title_input \in TypedTitles, result_text \in Structures :
          ClickAnalyze("key", user_title_input, "raw script", result_text) =>
              \A i \in 1..Len(chapter_titles(result_text)) :
                  session_state'["section_scripts"][chapter_titles(result_text)[i]] = ""]_vars

----------------------------------------------------------------------------
(* Properties of the chunker and the filename deriver (under FnSpec).      *)

non_whitespace(s) == SelectSeq(s, LAMBDA c : c \notin Whitespace)

\* C8: every element of the sequence returned by split_script_by_time is a
\* non-empty string, for every script and every chunk size greater than 0.
ChunksAreNonEmpty ==
    fn_pc # "input" => \A i \in 1..Len(fn_chunks) : fn_chunks[i] # <<>>

IsHelloScenario == fn_pc = "named" /\ fn_script = HelloScript /\ fn_limit = 30

\* C9 as stated: the scenario script with chars_per_chunk = 30 gives the three
\* chunks "Hello world.", "This is a test.", "Another sentence here." and
\* scenes 1, 2, 3 named S001_, S002_, S003_.
HelloGivesThreeChunks ==
    IsHelloScenario =>
        /\ fn_chunks = << SubSeq(HelloScript, 1, 12), SubSeq(HelloScript, 14, 28),
                          SubSeq(HelloScript, 30, 51) >>
        /\ Len(fn_names) = 3
        /\ starts_with(fn_names[1], <<"S", "0", "0", "1", "_">>)
        /\ starts_with(fn_names[2], <<"S", "0", "0", "2", "_">>)
        /\ starts_with(fn_names[3], <<"S", "0", "0", "3", "_">>)

\* C9 amended: the scenario script with chars_per_chunk = 30 gives the two
\* chunks "Hello world. This is a test." and "Another sentence here.", and
\* the scenes derived from them are 1 and 2, named S001_ and S002_.
HelloGivesTwoChunks ==
    IsHelloScenario =>
        /\ fn_chunks = << SubSeq(HelloScript, 1, 28), SubSeq(HelloScript, 30, 51) >>
        /\ Len(fn_names) = 2
        /\ starts_with(fn_names[1], <<"S", "0", "0", "1", "_">>)
        /\ starts_with(fn_names[2], <<"S", "0", "0", "2", "_">>)

HelloScenarioReached == IsHelloScenario /\ Len(fn_chunks) = 2

\* C10: the concatenation of the returned chunks, whitespace ignored, is the
\* sequence of the non-whitespace characters of the script: nothing dropped,
\* duplicated or reordered.
NonWhitespacePreserved ==
    fn_pc # "input"
        => non_whitespace(flatten(fn_chunks)) = non_whitespace(fn_script)

\* the sentences the loop of split_script_by_time accumulates: the stripped,
\* non-empty pieces of temp_sentences
sentences_of(script) ==
    LET pieces == temp_sentences(script)
    IN  SelectSeq(tuple([i \in 1..Len(pieces) |-> strip(pieces[i])]),
                  LAMBDA s : s # <<>>)

\* the k-th group of consecutive sentences when the list is cut after the
\* positions in cuts
sentence_group(sentences, cuts, k) ==
    LET starts == {1} \cup { c + 1 : c \in cuts }
        first  == nth(starts, k)
        last   == IF k = Cardinality(starts) THEN Len(sentences)
                  ELSE nth(starts, k + 1) - 1
    IN  SubSeq(sentences, first, last)

\* every way of cutting a list of sentences into groups of consecutive sentences
Groupings(sentences) ==
    IF sentences = <<>> THEN { <<>> }
    ELSE { tuple([k \in 1..(Cardinality(cuts) + 1) |->
                    sentence_group(sentences, cuts, k)]) :
             cuts \in SUBSET (1..(Len(sentences) - 1)) }

\* the groupings of the sentences of the script whose groups, joined by single
\* spaces, are the non-empty chunks returned
ReturnedGroupings ==
    { g \in Groupings(sentences_of(fn_script)) :
        tuple([k \in 1..Len(g) |-> str_join(g[k])])
            = SelectSeq(fn_chunks, LAMBDA c : c # <<>>) }

\* C11 as stated: every returned chunk that joins two or more sentences is
\* strictly shorter than chars_per_chunk.
JoinedChunksBelowLimit ==
    fn_pc # "input" =>
        \A g \in ReturnedGroupings : \A k \in 1..Len(g) :
            Len(g[k]) >= 2 => Len(str_join(g[k])) < fn_limit

\* C11 amended: the test of the loop does not count the separating space, so
\* every returned chunk that joins two or more sentences (the sentences joined
\* by single spaces) is at most chars_per_chunk long.
JoinedChunksWithinLimit ==
    fn_pc # "input" =>
        /\ ReturnedGroupings # {}
        /\ \A g \in ReturnedGroupings : \A k \in 1..Len(g) :
               Len(g[k]) >= 2 => Len(str_join(g[k])) <= fn_limit

JoinedChunkAtLimitReached ==
    /\ fn_pc = "split"
    /\ fn_script = <<".", ".", ".">>
    /\ fn_limit = 3
    /\ fn_chunks = << <<".">>, <<".", " ", ".">> >>

\* C12: a sentence longer than chars_per_chunk is returned as one chunk of
\* its own: not split, and not joined with a neighbouring sentence.
OversizedSentenceAlone ==
    fn_pc # "input" =>
        /\ ReturnedGroupings # {}
        /\ \A g \in ReturnedGroupings : \A k \in 1..Len(g) :
               (\E j \in 1..Len(g[k]) : Len(g[k][j]) > fn_limit) => Len(g[k]) = 1

OversizedSentenceReached ==
    /\ fn_pc = "split"
    /\ fn_script = MixedScript
    /\ fn_limit = 5
    /\ Len(fn_chunks) = 4
    /\ fn_chunks[3] = SubSeq(MixedScript, 11, 16)

\* C13: an empty or whitespace-only script gives the empty sequence, for
\* every chars_per_chunk.
BlankGivesNoChunks ==
    (fn_pc # "input" /\ non_whitespace(fn_script) = <<>>) => fn_chunks = <<>>

BlankSplitReached ==
    /\ fn_pc = "split"
    /\ fn_script = BlankScript
    /\ fn_chunks = <<>>

\* the scene number zero-padded to three digits
padded(n) ==
    IF n < 10 THEN <<"0", "0">> \o decimal(n)
    ELSE IF n < 100 THEN <<"0">> \o decimal(n)
    ELSE decimal(n)

\* C19: make_filename(i, text) is "S", the scene number zero-padded to three
\* digits, "_", the summary and ".png"; the summary is every word of the
\* cleaned text joined by single spaces when there are at most 6 words, and
\* otherwise the first 3 words, "...", and the last 3 words.
FilenameFormat ==
    fn_pc = "named" =>
        /\ Len(fn_names) = Len(fn_chunks)
        /\ \A i \in 1..Len(fn_chunks) :
               LET words   == str_words(remove_illegal(strip(
                                  str_replace(fn_chunks[i], "\n", <<" ">>))))
                   n       == Len(words)
                   summary == IF n <= 6 THEN str_join(words)
                              ELSE str_join(<<words[1], words[2], words[3]>>)
                                   \o <<".", ".", ".">>
                                   \o str_join(<<words[n - 2], words[n - 1], words[n]>>)
               IN  fn_names[i] = <<"S">> \o padded(i) \o <<"_">> \o summary
                                 \o <<".", "p", "n", "g">>
        /\ (fn_script = TwoWords /\ fn_limit = 100) =>
               fn_names = << <<"S", "0", "0", "1", "_", "h", "e", "l", "l", "o", " ", "w", "o", "r", "l", "d", ".", "p", "n", "g">> >>
        /\ (fn_script = EightWords /\ fn_limit = 100) =>
               fn_names = << <<"S", "0", "0", "1", "_", "a", " ", "b", " ", "c", ".", ".", ".", "f", " ", "g", " ", "h", ".", "p", "n", "g">> >>

ShortenedNameReached ==
    /\ fn_pc = "named"
    /\ fn_script = EightWords
    /\ fn_limit = 100
    /\ Len(fn_names) = 1
    /\ Len(fn_names[1]) = 22

\* C20: the filenames, and so the output paths, of two different scenes of a
\* run are different, also when the two summaries are the same.
FilenamesDiffer ==
    fn_pc = "named" =>
        \A i, j \in 1..Len(fn_names) :
            i # j => /\ fn_names[i] # fn_names[j]
                     /\ path_join(IMAGE_OUTPUT_DIR, fn_names[i])
                            # path_join(IMAGE_OUTPUT_DIR, fn_names[j])

SameSummaryReached ==
    /\ fn_pc = "named"
    /\ fn_script = <<"a", ".", "a", ".">>
    /\ fn_limit = 1
    /\ Len(fn_chunks) = 3
    /\ fn_chunks[2] = fn_chunks[3]
    /\ fn_names[2] # fn_names[3]

====
